---- MODULE Spec2Model ----
(***************************************************************************)
(* Model of the AI insight orchestration layer of the finance assistant:   *)
(* ai_services.py (chat_with_watson, analyze_financial_sentiment,          *)
(* call_granite_model, analyze_financial_document and their initialisers)  *)
(* and app.py (send_chat_message).                                         *)
(*                                                                         *)
(* The remote services and the process environment are the inputs of each  *)
(* call: which credentials are set, whether a client constructor raises,   *)
(* and what each remote call does (answers, answers with an odd payload,   *)
(* raises).  A text is a sequence of pieces, so that string concatenation  *)
(* is sequence concatenation and the empty string is the empty sequence.   *)
(* A user message is a sequence of characters, so that lower() and the     *)
(* substring test of the keyword trigger are computed.                     *)
(***************************************************************************)
EXTENDS Integers, Sequences, FiniteSets, TLC

\* Number of chat turns (direct or through the app) explored in one behaviour.
MaxTurns == 2

----------------------------------------------------------------------------
(* Characters, lower(), substring                                          *)

UpperCase == <<"A","B","C","D","E","F","G","H","I","J","K","L","M",
               "N","O","P","Q","R","S","T","U","V","W","X","Y","Z">>
LowerCase == <<"a","b","c","d","e","f","g","h","i","j","k","l","m",
               "n","o","p","q","r","s","t","u","v","w","x","y","z">>

\* str.lower() on one character
lower_char(c) ==
    IF \E i \in 1..Len(UpperCase) : UpperCase[i] = c
    THEN LowerCase[CHOOSE i \in 1..Len(UpperCase) : UpperCase[i] = c]
    ELSE c

\* str.lower()
lower(s) == [i \in 1..Len(s) |-> lower_char(s[i])]

\* Python's `k in s` on strings
contains(s, k) ==
    \E i \in 0..(Len(s) - Len(k)) :
        \A j \in 1..Len(k) : s[i + j] = k[j]

\* app.py line 131: ['analyze', 'sentiment', 'review']
Keywords == { <<"a","n","a","l","y","z","e">>,
              <<"s","e","n","t","i","m","e","n","t">>,
              <<"r","e","v","i","e","w">> }

\* The messages a user types in this model.
Messages == { <<"R","e","v","i","e","w">>,
              <<"m","y"," ","S","E","N","T","I","M","E","N","T">>,
              <<"a","n","a","l","y","z","e","d">>,
              <<"b","u","d","g","e","t">>,
              <<"r","e","v","i","e"," ","w">>,
              << >> }

----------------------------------------------------------------------------
(* Conversation context: None, or a dict that may hold 'session_id'        *)

NoneCtx == [tag |-> "None", keys |-> {}, session_id |-> 0]
EmptyDict == [tag |-> "dict", keys |-> {}, session_id |-> 0]
SessionCtx(h) == [tag |-> "dict", keys |-> {"session_id"}, session_id |-> h]

\* needs_session, had every call opened a session
needs_session_always(context) == TRUE

\* `not context or 'session_id' not in context` (ai_services.py line 161)
needs_session(context) ==
    \/ context.tag = "None"
    \/ context.keys = {}
    \/ "session_id" \notin context.keys

HasHandle(context) == context.tag = "dict" /\ "session_id" \in context.keys

----------------------------------------------------------------------------
(* Fixed texts                                                             *)

\* ai_services.py lines 149-155
ChatPool == << "emergency fund to 3 months of expenses",
               "reducing entertainment expenses by 15%",
               "automatic transfers to your savings account",
               "on track to meet your financial goals in about 4 years",
               "meal prepping could save you around $200 per month" >>
ChatPoolSet == { <<ChatPool[i]>> : i \in 1..Len(ChatPool) }

\* ai_services.py line 178
TroubleText == "I'm having trouble connecting to the financial analysis service. Please try again later."

\* what the remote assistant answers when it answers
LiveReply == "live assistant reply"

\* ways a remote call can raise
RaiseKinds == {"network_error", "non_2xx", "malformed"}

----------------------------------------------------------------------------
(* Watson Assistant                                                        *)

\* The environment of one chat_with_watson call.
\*   api_key, url : WATSON_ASSISTANT_API_KEY / WATSON_ASSISTANT_URL are set
\*   ctor         : the client constructor raises or not
\*   create       : what assistant.create_session does
\*   message      : what assistant.message does ("empty": output text is '')
\*   pick         : the index random.choice draws
\*   fresh        : the session id the remote would hand out
UnbuiltCreds == { <<FALSE, FALSE, "ok">>, <<FALSE, TRUE, "ok">>,
                  <<TRUE, FALSE, "ok">>, <<TRUE, TRUE, "raise">> }

init_watson_assistant(e) ==
    IF ~e.api_key \/ ~e.url THEN "None"
    ELSE IF e.ctor = "raise" THEN "None"
    ELSE "assistant"

\* chat_mock_reply, had the mock branch reported the missing service
chat_mock_reply_trouble(context, e) ==
    [text |-> <<TroubleText>>, context |-> context,
     raised |-> FALSE, failed |-> FALSE, mock |-> TRUE,
     creates |-> 0, messages |-> 0, create |-> "n/a", message |-> "n/a"]

\* lines 147-156: the mock branch; the caller's context is handed back as it came
chat_mock_reply(context, e) ==
    [text |-> <<ChatPool[e.pick]>>, context |-> context,
     raised |-> FALSE, failed |-> FALSE, mock |-> TRUE,
     creates |-> 0, messages |-> 0, create |-> "n/a", message |-> "n/a"]

\* chat_except_reply, had the except branch made up a handle of its own
chat_except_local_handle(context, seen) ==
    [text |-> <<TroubleText>>,
     context |-> IF HasHandle(context) THEN context ELSE SessionCtx(0),
     raised |-> FALSE, failed |-> TRUE, mock |-> FALSE,
     creates |-> seen.creates, messages |-> seen.messages,
     create |-> seen.create, message |-> seen.message]

\* chat_except_reply, had the except branch drawn from the mock sentences
chat_except_pool(context, seen) ==
    [text |-> <<ChatPool[1]>>, context |-> context,
     raised |-> FALSE, failed |-> TRUE, mock |-> FALSE,
     creates |-> seen.creates, messages |-> seen.messages,
     create |-> seen.create, message |-> seen.message]

\* chat_except_reply, had the except branch handed back no context
chat_except_forget(context, seen) ==
    [text |-> <<TroubleText>>, context |-> NoneCtx,
     raised |-> FALSE, failed |-> TRUE, mock |-> FALSE,
     creates |-> seen.creates, messages |-> seen.messages,
     create |-> seen.create, message |-> seen.message]

\* lines 177-178: the except branch; `context` is the local variable as it stands
chat_except_reply(context, seen) ==
    [text |-> <<TroubleText>>, context |-> context,
     raised |-> FALSE, failed |-> TRUE, mock |-> FALSE,
     creates |-> seen.creates, messages |-> seen.messages,
     create |-> seen.create, message |-> seen.message]

\* line 176: response['output']['generic'][0]['text'], context
chat_live_reply(context, e, seen) ==
    [text |-> IF e.message = "empty" THEN << >> ELSE <<LiveReply>>,
     context |-> context,
     raised |-> FALSE, failed |-> FALSE, mock |-> FALSE,
     creates |-> seen.creates, messages |-> seen.messages,
     create |-> seen.create, message |-> seen.message]

chat_with_watson(message, context, e) ==
    LET assistant == init_watson_assistant(e) IN
    IF assistant = "None"
    THEN chat_mock_reply(context, e)
    ELSE
      LET create_attempted == needs_session(context)
          create_raises == create_attempted /\ e.create \in RaiseKinds
          context1 == IF create_attempted /\ ~create_raises
                      THEN SessionCtx(e.fresh) ELSE context
          message_attempted == ~create_raises
          message_raises == message_attempted /\ e.message \in RaiseKinds
          seen == [creates |-> IF create_attempted THEN 1 ELSE 0,
                   messages |-> IF message_attempted THEN 1 ELSE 0,
                   create |-> IF create_attempted THEN e.create ELSE "n/a",
                   message |-> IF message_attempted THEN e.message ELSE "n/a"]
      IN IF create_raises \/ message_raises
         THEN chat_except_reply(context1, seen)
         ELSE chat_live_reply(context1, e, seen)

----------------------------------------------------------------------------
(* Watson NLU: analyze_financial_sentiment                                 *)

\* A sentiment result as send_chat_message reads it:
\*   kind      : the value is a dict or not
\*   sentiment : value['sentiment'] is absent, a dict, or something else
\*   document  : value['sentiment']['document'] likewise
\*   label     : the label string, "absent", or "not_str"
\*   score     : hundredths
Analysis(kind, sentiment, document, label, score, keywords) ==
    [kind |-> kind, sentiment |-> sentiment, document |-> document,
     label |-> label, score |-> score, keywords |-> keywords]

\* ai_services.py lines 113-119 and, identically, 136-142
SentimentFallback ==
    Analysis("dict", "dict", "dict", "neutral", 65,
             <<[text |-> "savings", score |-> 80],
               [text |-> "investment", score |-> 70]>>)

LiveKeywords == <<[text |-> "live keyword", score |-> 50]>>

\* what nlu.analyze(...).get_result() hands back when it does not raise
NluPayloads == {"positive", "negative", "no_sentiment", "sentiment_not_dict",
                "label_not_str", "not_dict"}

nlu_result(payload) ==
    CASE payload = "positive" -> Analysis("dict", "dict", "dict", "positive", 91, LiveKeywords)
      [] payload = "negative" -> Analysis("dict", "dict", "dict", "negative", 12, LiveKeywords)
      [] payload = "no_sentiment" -> Analysis("dict", "absent", "absent", "absent", 0, LiveKeywords)
      [] payload = "sentiment_not_dict" -> Analysis("dict", "other", "absent", "absent", 0, LiveKeywords)
      [] payload = "label_not_str" -> Analysis("dict", "dict", "dict", "not_str", 0, LiveKeywords)
      [] payload = "not_dict" -> Analysis("other", "absent", "absent", "absent", 0, << >>)

SentimentLabels == {"positive", "neutral", "negative"}

\* the result shape of section 6: a sentiment with a label of the enum and a score
WellFormedSentiment(a) ==
    /\ a.kind = "dict" /\ a.sentiment = "dict" /\ a.document = "dict"
    /\ a.label \in SentimentLabels

init_watson_nlp(e) ==
    IF ~e.api_key \/ ~e.url THEN "None"
    ELSE IF e.ctor = "raise" THEN "None"
    ELSE "nlu"

\* lines 111-119
sentiment_mock_result ==
    [value |-> SentimentFallback, raised |-> FALSE, failed |-> FALSE,
     mock |-> TRUE, nlu_calls |-> 0]

\* sentiment_except_result, had the except branch answered with another label
sentiment_except_negative ==
    [value |-> Analysis("dict", "dict", "dict", "negative", 65, << >>),
     raised |-> FALSE, failed |-> TRUE, mock |-> FALSE, nlu_calls |-> 1]

\* lines 135-142
sentiment_except_result ==
    [value |-> SentimentFallback, raised |-> FALSE, failed |-> TRUE,
     mock |-> FALSE, nlu_calls |-> 1]

\* lines 122-134: the payload is returned as it came
sentiment_live_result(e) ==
    [value |-> nlu_result(e.analyze), raised |-> FALSE, failed |-> FALSE,
     mock |-> FALSE, nlu_calls |-> 1]

analyze_financial_sentiment(text, e) ==
    LET nlu == init_watson_nlp(e) IN
    IF nlu = "None" THEN sentiment_mock_result
    ELSE IF e.analyze \in RaiseKinds THEN sentiment_except_result
    ELSE sentiment_live_result(e)

----------------------------------------------------------------------------
(* Granite: call_granite_model                                             *)

\* ai_services.py line 86
GraniteMockText == "AI Analysis: Based on your financial data, I recommend: 1. emergency fund 2. diversifying 3. subscriptions 4. automatic transfers"

\* ai_services.py line 106
GraniteFailText == "AI analysis: Based on your financial data, I recommend building a larger emergency fund and reviewing your investment strategy"

LiveGeneration == "live generated text"

\* what requests.post(...) and the reads of its payload do:
\*   "ok"       : 2xx, choices[0].text is a text
\*   "no_text"  : 2xx, but 'choices' or choices[0]['text'] is missing: the
\*                defaults of line 103 give ''
\*   RaiseKinds : post raises, raise_for_status raises, or .json()/[0] raises
GranitePosts == {"ok", "no_text"} \cup RaiseKinds

\* lines 85-86
granite_mock_result ==
    [text |-> <<GraniteMockText>>, raised |-> FALSE, failed |-> FALSE,
     mock |-> TRUE, posts |-> 0]

\* lines 104-106
granite_except_result ==
    [text |-> <<GraniteFailText>>, raised |-> FALSE, failed |-> TRUE,
     mock |-> FALSE, posts |-> 1]

\* lines 100-103
granite_live_result(e) ==
    [text |-> IF e.post = "no_text" THEN << >> ELSE <<LiveGeneration>>,
     raised |-> FALSE, failed |-> FALSE, mock |-> FALSE, posts |-> 1]

call_granite_model(prompt, e) ==
    IF ~e.api_key \/ ~e.url THEN granite_mock_result
    ELSE IF e.post \in RaiseKinds THEN granite_except_result
    ELSE granite_live_result(e)

----------------------------------------------------------------------------
(* HuggingFace: analyze_financial_document                                 *)

\* text[:512], ai_services.py line 209
PrefixLen == 512

\* len(text[:512])
prefix_length(n) == IF n < PrefixLen THEN n ELSE PrefixLen

Insight(insights, sentiment, summary) ==
    [insights |-> insights, sentiment |-> sentiment, summary |-> summary]

\* lines 184-192: no models at all
DocSynthetic ==
    Insight(<<"main expenses: housing and transportation appear to be your largest",
              "total income: approximately $5,000",
              "saving patterns: about 20% of your income, which is excellent">>,
            <<[label |-> "POSITIVE", score |-> 89]>>,
            "healthy spending habits with a good savings rate")

\* lines 198-206: an API key is set
DocApi ==
    Insight(<<"main expenses: Housing ($1,500) and Food ($600)",
              "total income: $5,000",
              "saving patterns: $1,000 monthly (20% savings rate)">>,
            <<[label |-> "POSITIVE", score |-> 85]>>,
            "strong financial health with a good savings rate")

\* lines 211-219: the local classifier's sentiment, fixed insights and summary
DocLocal(sentiment) ==
    Insight(<<"main expenses: significant spending on housing and utilities",
              "total income: in the range of $4,000-$5,000",
              "saving patterns: approximately 15-20% of your income">>,
            sentiment,
            "generally good financial habits with room for optimization")

\* lines 221-229: the except branch
DocExcept ==
    Insight(<<"main expenses: housing and transportation are primary expenses",
              "total income: $4,500-$5,500",
              "saving patterns: around 18% of income">>,
            <<[label |-> "NEUTRAL", score |-> 75]>>,
            "reasonably good financial management")

\* what the local pipeline answers when it answers
LocalVerdicts == {"POSITIVE", "NEGATIVE"}
local_sentiment(verdict) == <<[label |-> verdict, score |-> 99]>>

\* lines 50-76: {"api_key": ...}, {"sentiment": ..., "local": True} or None
init_huggingface_models(e) ==
    IF e.api_key THEN "api"
    ELSE IF e.pipeline = "raise" THEN "None"
    ELSE "local"

\* document_none_result, had the no-models branch answered with the
\* except-branch result
document_none_except ==
    [value |-> DocExcept, raised |-> FALSE, failed |-> FALSE,
     path |-> "none", remote_calls |-> 0, classified |-> 0]

\* lines 183-192
document_none_result ==
    [value |-> DocSynthetic, raised |-> FALSE, failed |-> FALSE,
     path |-> "none", remote_calls |-> 0, classified |-> 0]

\* document_api_result, had the API branch answered with the no-models result
document_api_synthetic ==
    [value |-> DocSynthetic, raised |-> FALSE, failed |-> FALSE,
     path |-> "api", remote_calls |-> 0, classified |-> 0]

\* lines 196-206: "This would be the API implementation": no request is made
document_api_result ==
    [value |-> DocApi, raised |-> FALSE, failed |-> FALSE,
     path |-> "api", remote_calls |-> 0, classified |-> 0]

\* lines 207-219
document_local_result(n, e) ==
    [value |-> DocLocal(local_sentiment(e.classify)), raised |-> FALSE,
     failed |-> FALSE, path |-> "local", remote_calls |-> 0,
     classified |-> prefix_length(n)]

\* lines 220-229
document_except_result(n) ==
    [value |-> DocExcept, raised |-> FALSE, failed |-> TRUE,
     path |-> "except", remote_calls |-> 0, classified |-> prefix_length(n)]

\* `n` is len(text)
analyze_financial_document(n, e) ==
    LET models == init_huggingface_models(e) IN
    IF models = "None" THEN document_none_result
    ELSE IF models = "api" THEN document_api_result
    ELSE IF e.classify = "raise" THEN document_except_result(n)
    ELSE document_local_result(n, e)

----------------------------------------------------------------------------
(* app.py: send_chat_message                                               *)

\* line 131: any(keyword in message.lower() for keyword in [...])
any_keyword(message) == \E k \in Keywords : contains(lower(message), k)

\* any_keyword, evaluated once for each message of the model
TriggerOf == [m \in Messages |-> any_keyword(m)]
is_trigger(message) == TriggerOf[message]

\* str.capitalize() on the labels that occur
capitalize(label) ==
    CASE label = "positive" -> "Positive"
      [] label = "neutral" -> "Neutral"
      [] label = "negative" -> "Negative"
      [] OTHER -> label

\* line 134: analysis.get('sentiment', {}).get('document', {}).get('label', 'neutral')
\* and line 135's sentiment.capitalize(); "raise" where a .get or .capitalize is
\* applied to a value that has none (AttributeError)
extract_label(a) ==
    IF a.sentiment = "absent" THEN "neutral"
    ELSE IF a.sentiment # "dict" THEN "raise"
    ELSE IF a.document = "absent" THEN "neutral"
    ELSE IF a.document # "dict" THEN "raise"
    ELSE IF a.label = "absent" THEN "neutral"
    ELSE IF a.label = "not_str" THEN "raise"
    ELSE a.label

NoAnalysis == Analysis("none", "absent", "absent", "absent", 0, << >>)
NoSentimentCall ==
    [value |-> NoAnalysis, raised |-> FALSE, failed |-> FALSE,
     mock |-> FALSE, nlu_calls |-> 0]

BlankLine == "\n\n"
LabelPrefix == "Sentiment Analysis: "

\* line 135: response += f"\n\nSentiment Analysis: {sentiment.capitalize()}"
append_label(response, label) ==
    response \o <<BlankLine, LabelPrefix, capitalize(label)>>

\* line 139: f"I encountered an error: {str(e)}. Please try again."
error_reply(e) == <<"I encountered an error: ", e, ". Please try again.">>

\* lines 124-139.  chat_with_watson is called with the message alone, so its
\* context parameter takes the default None, and the context it returns is a
\* local that is never stored.
send_chat_message(message, eChat, eNlu) ==
    LET chat == chat_with_watson(message, NoneCtx, eChat)
        trig == is_trigger(message)
        sent == IF trig THEN analyze_financial_sentiment(message, eNlu)
                ELSE NoSentimentCall
        out(text, labelled, label, errored) ==
            [text |-> text, base |-> chat.text, trig |-> trig,
             labelled |-> labelled, label |-> label, errored |-> errored,
             raised |-> FALSE, chat |-> chat, sent |-> sent]
    IN IF ~trig THEN out(chat.text, FALSE, "", FALSE)
       ELSE IF sent.value.kind # "dict" THEN out(chat.text, FALSE, "", FALSE)
       ELSE IF extract_label(sent.value) = "raise"
            THEN out(error_reply("AttributeError"), FALSE, "", TRUE)
       ELSE out(append_label(chat.text, extract_label(sent.value)), TRUE,
                capitalize(extract_label(sent.value)), FALSE)

----------------------------------------------------------------------------
(* app.py: the chat of main_app                                            *)

Space == " "

\* a piece that is whitespace alone
is_blank(p) == p = BlankLine

\* str.split() takes the surrounding whitespace off a piece
strip(p) ==
    CASE p = LabelPrefix -> "Sentiment Analysis:"
      [] p = error_reply("")[1] -> "I encountered an error:"
      [] OTHER -> p

\* a piece that starts inside a word: no whitespace parts it from the piece
\* before it
glued(p) == p = error_reply("")[3]

\* line 442: response.split(), a piece standing for the words it holds
split(text) == SelectSeq(text, LAMBDA p : ~is_blank(p))

RECURSIVE join_chunks(_, _)
join_chunks(chunks, i) ==
    IF i > Len(chunks) THEN << >>
    ELSE <<strip(chunks[i])>>
         \o (IF i < Len(chunks) /\ glued(chunks[i + 1]) THEN << >> ELSE <<Space>>)
         \o join_chunks(chunks, i + 1)

\* lines 436-445: full_response = "" ; full_response += chunk + " " for each
\* chunk of response.split()
full_response(response) == join_chunks(split(response), 1)

Entry(role, content) == [role |-> role, content |-> content]

\* append_turn, had the reply been stored before the prompt
append_turn_reply_first(chat_history, prompt, response) ==
    chat_history \o <<Entry("assistant", full_response(response)),
                      Entry("user", prompt)>>

\* lines 427 and 450: the two appends of one turn
append_turn(chat_history, prompt, response) ==
    chat_history \o <<Entry("user", prompt),
                      Entry("assistant", full_response(response))>>

----------------------------------------------------------------------------
(* app.py: calculate_financial_health_score                                *)

\* The numbers of the score are fractions <<numerator, denominator>> with a
\* positive denominator, kept in lowest terms.
RECURSIVE gcd(_, _)
gcd(a, b) == IF b = 0 THEN a ELSE gcd(b, a % b)

abs(a) == IF a < 0 THEN -a ELSE a

reduce(q) ==
    LET g == gcd(abs(q[1]), q[2]) IN <<q[1] \div g, q[2] \div g>>

frac(n, d) == IF d < 0 THEN reduce(<<-n, -d>>) ELSE reduce(<<n, d>>)
mul(p, q) == frac(p[1] * q[1], p[2] * q[2])
add(p, q) == frac(p[1] * q[2] + q[1] * p[2], p[2] * q[2])
leq(p, q) == p[1] * q[2] <= q[1] * p[2]
fmin(p, q) == IF leq(p, q) THEN p ELSE q
fmax(p, q) == IF leq(p, q) THEN q ELSE p

\* line 147: (savings / income) * 100 if income > 0 else 0
savings_rate(income, savings) ==
    IF income > 0 THEN mul(frac(savings, income), frac(100, 1)) ELSE frac(0, 1)

\* expense_diversity, had max been written for min
expense_diversity_max(expenses) ==
    fmax(frac(Cardinality(DOMAIN expenses), 10), frac(1, 1))

\* line 148: min(len(set(expenses.keys())) / 10, 1.0)
expense_diversity(expenses) ==
    fmin(frac(Cardinality(DOMAIN expenses), 10), frac(1, 1))

\* clamp, had the score been returned as computed
clamp_none(score) == score

\* line 152: min(max(score, 0), 100)
clamp(score) == fmin(fmax(score, frac(0, 1)), frac(100, 1))

\* lines 142-152
calculate_financial_health_score(income, expenses, savings) ==
    IF income = 0 THEN frac(0, 1)
    ELSE clamp(add(mul(savings_rate(income, savings), frac(6, 10)),
                   mul(expense_diversity(expenses), frac(40, 1))))

\* expense categories and what is spent on each
Categories ==
    <<"Housing", "Food", "Transport", "Entertainment", "Utilities", "Other",
      "Health", "Education", "Insurance", "Travel", "Gifts", "Pets">>

Amounts ==
    <<1500, 600, 300, 200, 280, 320, 150, 250, 180, 400, 60, 90>>

\* the expense mappings tried: the first k categories, k = 0 .. 12
ExpenseMaps ==
    { [c \in { Categories[i] : i \in 1..k } |->
          Amounts[CHOOSE i \in 1..Len(Categories) : Categories[i] = c]] :
        k \in 0..Len(Categories) }

NoExpenses == [c \in {} |-> 0]

Incomes == {0, 800, 5000, 50000}
SavingsAmounts == {0, 400, 1000, 6000}

----------------------------------------------------------------------------
(* Environments of the calls                                               *)

Configured(e) == e.api_key /\ e.url

ChatEnvs(fresh) ==
    { [api_key |-> c[1], url |-> c[2], ctor |-> c[3], create |-> "ok",
       message |-> "ok", pick |-> p, fresh |-> fresh] :
         c \in UnbuiltCreds, p \in 1..Len(ChatPool) }
    \cup
    { [api_key |-> TRUE, url |-> TRUE, ctor |-> "ok", create |-> cr,
       message |-> m, pick |-> 1, fresh |-> fresh] :
         cr \in {"ok"} \cup RaiseKinds, m \in {"ok", "empty"} \cup RaiseKinds }

\* the environments of a call made without a context: the message call is
\* reached only when create_session answered; each unset credential is
\* tried with the first sentence, every sentence with both unset
FirstTurnEnvs(fresh) ==
    { e \in ChatEnvs(fresh) :
        /\ e.create \in RaiseKinds => e.message = "ok"
        /\ e.pick > 1 => ~e.api_key /\ ~e.url }

NluEnvs ==
    { [api_key |-> c[1], url |-> c[2], ctor |-> c[3], analyze |-> "positive"] :
         c \in UnbuiltCreds }
    \cup
    { [api_key |-> TRUE, url |-> TRUE, ctor |-> "ok", analyze |-> a] :
         a \in NluPayloads \cup RaiseKinds }

\* the sentiment service is consulted only for a trigger message
SendNluEnvs(m) ==
    IF is_trigger(m) THEN NluEnvs
    ELSE { [api_key |-> FALSE, url |-> FALSE, ctor |-> "ok", analyze |-> "positive"] }

\* line 425: `if prompt := st.chat_input(...)` runs a turn for a prompt that
\* is not empty
Prompts == { m \in Messages : m # << >> }

\* the environments tried in the chat of main_app: both credentials unset
\* (two of the sentences), the client built and answering, answering with an
\* empty text, and create_session failing
UiChatEnvs(fresh) ==
    { e \in FirstTurnEnvs(fresh) :
        /\ e.pick <= 2
        /\ e.api_key = e.url /\ e.ctor = "ok"
        /\ e.create \in {"ok", "network_error"}
        /\ e.message \in {"ok", "empty"} }

UiNluEnvs(m) ==
    { n \in SendNluEnvs(m) :
        /\ n.api_key = n.url /\ n.ctor = "ok"
        /\ n.analyze \in {"positive", "sentiment_not_dict"} }

GraniteEnvs ==
    { [api_key |-> k, url |-> u, post |-> p] :
         k \in BOOLEAN, u \in BOOLEAN, p \in GranitePosts }

\* remote: what the hosted document service would answer if it were asked
DocEnvs ==
    { [api_key |-> k, pipeline |-> l, classify |-> c, remote |-> r] :
         k \in BOOLEAN, l \in {"ok", "raise"},
         c \in LocalVerdicts \cup {"raise"}, r \in {"200", "500"} }

\* len(text) of the documents analysed
DocLengths == {0, 40, 600}

----------------------------------------------------------------------------
(* State                                                                   *)

VARIABLES
    ctx,        \* the context a caller of chat_with_watson threads through
    sessions,   \* the number of sessions the remote assistant has created
    turns,      \* chat turns so far
    app,        \* the chat of the app: turns, create_session calls, handles used
    ui,         \* st.session_state: authenticated, chat_history; the turns run
    call,       \* the call_granite_model invocation that is under way, if any
    last        \* the last operation: its inputs, environment and result

vars == <<ctx, sessions, turns, app, ui, call, last>>

NoInsight == Insight(<< >>, << >>, "")

\* no invocation under way
NoCall == [phase |-> "idle", prompt |-> << >>, posts |-> 0, post |-> "n/a"]

Blank ==
    [op |-> "init", message |-> << >>, trig |-> FALSE,
     key |-> FALSE, url |-> FALSE, built |-> FALSE,
     ctx_in |-> NoneCtx, ctx_out |-> NoneCtx,
     text |-> << >>, base |-> << >>,
     raised |-> FALSE, failed |-> FALSE, mock |-> FALSE, errored |-> FALSE,
     labelled |-> FALSE, label |-> "",
     create |-> "n/a", msg |-> "n/a",
     creates |-> 0, messages |-> 0, posts |-> 0, nlu_calls |-> 0,
     remote_calls |-> 0,
     nlu_key |-> FALSE, nlu_url |-> FALSE, nlu_failed |-> FALSE, nlu |-> "n/a",
     analysis |-> NoAnalysis,
     doc |-> NoInsight, path |-> "n/a", remote |-> "n/a", classified |-> 0,
     income |-> 0, expenses |-> NoExpenses, savings |-> 0, score |-> <<0, 1>>]

Init ==
    /\ ctx = NoneCtx
    /\ sessions = 0
    /\ turns = 0
    /\ app = [turns |-> 0, creates |-> 0, handles |-> {}]
    /\ ui = [authenticated |-> FALSE, chat_history |-> << >>, log |-> << >>]
    /\ call = NoCall
    /\ last = Blank

\* a caller of chat_with_watson calls it with the context it holds and keeps
\* the context that comes back
Chat ==
    /\ turns < MaxTurns
    /\ \E m \in Messages, e \in ChatEnvs(sessions + 1) :
        \E r \in {chat_with_watson(m, ctx, e)} :
        /\ ctx' = r.context
        /\ sessions' = IF r.creates = 1 /\ r.create = "ok" THEN sessions + 1 ELSE sessions
        /\ turns' = turns + 1
        /\ last' = [Blank EXCEPT !.op = "chat", !.message = m,
                      !.key = e.api_key, !.url = e.url,
                      !.built = (init_watson_assistant(e) # "None"),
                      !.ctx_in = ctx, !.ctx_out = r.context, !.text = r.text,
                      !.raised = r.raised, !.failed = r.failed, !.mock = r.mock,
                      !.create = r.create, !.msg = r.message,
                      !.creates = r.creates, !.messages = r.messages]
    /\ UNCHANGED <<app, ui, call>>

\* the caller drops its context (a new conversation)
Discard ==
    /\ ctx # NoneCtx
    /\ \E c \in {NoneCtx, EmptyDict} : ctx' = c
    /\ last' = [Blank EXCEPT !.op = "discard"]
    /\ UNCHANGED <<sessions, turns, app, ui, call>>

\* what a send_chat_message call leaves in `last`
send_record(m, e, n, r) ==
    [Blank EXCEPT !.op = "send", !.message = m, !.trig = r.trig,
                  !.key = e.api_key, !.url = e.url,
                  !.built = (init_watson_assistant(e) # "None"),
                  !.ctx_out = r.chat.context,
                  !.text = r.text, !.base = r.base,
                  !.raised = r.raised, !.failed = r.chat.failed,
                  !.mock = r.chat.mock, !.errored = r.errored,
                  !.labelled = r.labelled, !.label = r.label,
                  !.create = r.chat.create, !.msg = r.chat.message,
                  !.creates = r.chat.creates, !.messages = r.chat.messages,
                  !.nlu_calls = r.sent.nlu_calls,
                  !.nlu_key = (r.trig /\ n.api_key),
                  !.nlu_url = (r.trig /\ n.url),
                  !.nlu_failed = r.sent.failed,
                  !.nlu = IF r.sent.nlu_calls = 1 THEN n.analyze ELSE "n/a",
                  !.analysis = r.sent.value]

\* app.py lines 124-139: one call of send_chat_message
SendChat ==
    /\ turns < MaxTurns
    /\ \E m \in Messages, e \in FirstTurnEnvs(sessions + 1) :
        \E n \in SendNluEnvs(m) : \E r \in {send_chat_message(m, e, n)} :
        /\ sessions' = IF r.chat.creates = 1 /\ r.chat.create = "ok"
                       THEN sessions + 1 ELSE sessions
        /\ turns' = turns + 1
        /\ app' = [turns |-> app.turns + 1,
                   creates |-> app.creates + r.chat.creates,
                   handles |-> IF r.chat.messages = 1
                               THEN app.handles \cup {r.chat.context.session_id}
                               ELSE app.handles]
        /\ last' = send_record(m, e, n, r)
    /\ UNCHANGED <<ctx, ui, call>>

\* lines 160-175: the login form; the backend accepts the credentials or not
Login ==
    /\ ~ui.authenticated
    /\ \E auth \in {"ok", "invalid"} :
         ui' = [ui EXCEPT !.authenticated = (auth = "ok")]
    /\ last' = [Blank EXCEPT !.op = "login"]
    /\ UNCHANGED <<ctx, sessions, turns, app, call>>

\* lines 425-450: one turn of the chat: the prompt is appended, the reply is
\* computed and streamed, the streamed reply is appended
ChatInput ==
    /\ ui.authenticated
    /\ turns < MaxTurns
    /\ \E m \in Prompts, e \in UiChatEnvs(sessions + 1) :
        \E n \in UiNluEnvs(m) : \E r \in {send_chat_message(m, e, n)} :
        /\ sessions' = IF r.chat.creates = 1 /\ r.chat.create = "ok"
                       THEN sessions + 1 ELSE sessions
        /\ turns' = turns + 1
        /\ app' = [turns |-> app.turns + 1,
                   creates |-> app.creates + r.chat.creates,
                   handles |-> IF r.chat.messages = 1
                               THEN app.handles \cup {r.chat.context.session_id}
                               ELSE app.handles]
        /\ ui' = [ui EXCEPT
                    !.chat_history = append_turn(ui.chat_history, m, r.text),
                    !.log = Append(ui.log, [prompt |-> m, reply |-> r.text])]
        /\ last' = [send_record(m, e, n, r) EXCEPT !.op = "input"]
    /\ UNCHANGED <<ctx, call>>

\* lines 219-224: logout clears the history
Logout ==
    /\ ui.authenticated
    /\ ui' = [authenticated |-> FALSE, chat_history |-> << >>, log |-> << >>]
    /\ last' = [Blank EXCEPT !.op = "logout"]
    /\ UNCHANGED <<ctx, sessions, turns, app, call>>

Sentiment ==
    /\ \E m \in Messages, n \in NluEnvs :
        \E r \in {analyze_financial_sentiment(m, n)} :
        last' = [Blank EXCEPT !.op = "sentiment", !.message = m,
                   !.key = n.api_key, !.url = n.url,
                   !.built = (init_watson_nlp(n) # "None"),
                   !.raised = r.raised, !.failed = r.failed, !.mock = r.mock,
                   !.nlu_calls = r.nlu_calls,
                   !.nlu = IF r.nlu_calls = 1 THEN n.analyze ELSE "n/a",
                   !.analysis = r.value]
    /\ UNCHANGED <<ctx, sessions, turns, app, ui, call>>

\* what a call_granite_model invocation leaves in `last`
granite_record(m, e, r) ==
    [Blank EXCEPT !.op = "granite", !.message = m,
                  !.key = e.api_key, !.url = e.url,
                  !.built = Configured(e),
                  !.text = r.text,
                  !.raised = r.raised, !.failed = r.failed, !.mock = r.mock,
                  !.posts = r.posts,
                  !.msg = IF r.posts = 1 THEN e.post ELSE "n/a"]

Granite ==
    /\ \E m \in Messages, e \in GraniteEnvs :
        \E r \in {call_granite_model(m, e)} :
        last' = granite_record(m, e, r)
    /\ UNCHANGED <<ctx, sessions, turns, app, ui, call>>

Document ==
    /\ \E n \in DocLengths, e \in DocEnvs :
        \E r \in {analyze_financial_document(n, e)} :
        last' = [Blank EXCEPT !.op = "document",
                   !.key = e.api_key, !.url = e.api_key,
                   !.built = (init_huggingface_models(e) # "None"),
                   !.raised = r.raised, !.failed = r.failed,
                   !.mock = (r.path = "none"),
                   !.remote_calls = r.remote_calls,
                   !.doc = r.value, !.path = r.path, !.remote = e.remote,
                   !.classified = r.classified]
    /\ UNCHANGED <<ctx, sessions, turns, app, ui, call>>

\* app.py lines 272-276: the dashboard computes the health score
HealthScore ==
    /\ \E income \in Incomes, expenses \in ExpenseMaps, savings \in SavingsAmounts :
        \E r \in {calculate_financial_health_score(income, expenses, savings)} :
        last' = [Blank EXCEPT !.op = "score", !.income = income,
                   !.expenses = expenses, !.savings = savings, !.score = r]
    /\ UNCHANGED <<ctx, sessions, turns, app, ui, call>>

\* lines 81-86: a credential is missing and the fixed text is returned at once
GraniteMock ==
    /\ call.phase = "idle"
    /\ \E m \in Messages, e \in GraniteEnvs :
        /\ ~Configured(e) /\ e.post = "ok"
        /\ \E r \in {call_granite_model(m, e)} : last' = granite_record(m, e, r)
    /\ UNCHANGED <<ctx, sessions, turns, app, ui, call>>

\* line 100: requests.post(url, headers=headers, json=payload) is sent.  No
\* timeout is passed, so the invocation waits for as long as no answer comes.
GranitePost ==
    /\ call.phase = "idle"
    /\ \E m \in Messages :
         call' = [phase |-> "waiting", prompt |-> m, posts |-> 1, post |-> "n/a"]
    /\ UNCHANGED <<ctx, sessions, turns, app, ui, last>>

\* the endpoint answers, or the connection fails
GraniteAnswer ==
    /\ call.phase = "waiting"
    /\ \E p \in GranitePosts :
         call' = [call EXCEPT !.phase = "answered", !.post = p]
    /\ UNCHANGED <<ctx, sessions, turns, app, ui, last>>

\* lines 101-106: the answer is turned into the returned text
GraniteReturn ==
    /\ call.phase = "answered"
    /\ \E e \in {[api_key |-> TRUE, url |-> TRUE, post |-> call.post]} :
        \E r \in {call_granite_model(call.prompt, e)} :
          last' = granite_record(call.prompt, e, r)
    /\ call' = NoCall
    /\ UNCHANGED <<ctx, sessions, turns, app, ui>>

\* the service layer (ai_services.py), called directly
Next == Chat \/ Discard \/ Sentiment \/ Granite \/ Document

Spec == Init /\ [][Next]_vars

\* the chat of the app (app.py)
AppNext == SendChat

AppSpec == Init /\ [][AppNext]_vars

\* the chat of main_app with its history (app.py)
UiNext == Login \/ ChatInput \/ Logout

UiSpec == Init /\ [][UiNext]_vars

\* call_granite_model with its request under way; the steps of the code are
\* taken when they can be, the endpoint answers or not
CallNext == GraniteMock \/ GranitePost \/ GraniteAnswer \/ GraniteReturn

CallSpec == Init /\ [][CallNext]_vars /\ WF_vars(GraniteReturn)

\* the financial health score (app.py)
ScoreNext == HealthScore

ScoreSpec == Init /\ [][ScoreNext]_vars

----------------------------------------------------------------------------
(* Properties                                                              *)

\* credentials present: the API key and the URL/endpoint (the document
\* service has the key alone)
IsConfigured == last.key /\ last.url

DocShape(d) ==
    /\ Len(d.insights) = 3
    /\ Len(d.sentiment) >= 1
    /\ d.summary # ""

\* C1: every operation of every backend kind, for every backend outcome,
\* returns a value of its expected result shape and raises nothing.
C1_ExpectedShapeNeverRaises ==
    /\ ~last.raised
    /\ last.op = "chat" => last.ctx_out.tag \in {"None", "dict"}
    /\ last.op = "sentiment" => WellFormedSentiment(last.analysis)
    /\ last.op = "document" => DocShape(last.doc)

C4_OneSessionPerConversation ==
    /\ app.creates <= 1
    /\ Cardinality(app.handles) <= 1

\* C5: a call of chat_with_watson whose context carries a session handle
\* returns a context carrying that very handle and creates no session,
\* whether the message call succeeds or fails and whether or not the
\* assistant is configured.
C5_ActiveKeepsHandle ==
    last.op = "chat" /\ HasHandle(last.ctx_in) =>
      /\ last.ctx_out = last.ctx_in
      /\ last.creates = 0
      /\ ctx = last.ctx_in

C5_Witness ==
    /\ last.op = "chat" /\ HasHandle(last.ctx_in)
    /\ last.failed /\ last.msg \in RaiseKinds
    /\ last.ctx_out = last.ctx_in

\* C6 as stated: a call with no context returns a context that is not None
\* and carries a session handle, in every environment.
C6_NullContextGetsHandle ==
    last.op = "chat" /\ last.ctx_in = NoneCtx =>
      last.ctx_out # NoneCtx /\ HasHandle(last.ctx_out)

\* C6 amended: a call with no context returns a context carrying a session
\* handle exactly when the assistant client was built and create_session
\* answered; in every other environment (credentials absent, client
\* construction failed, create_session failed) it returns None, and no
\* handle is generated locally.
C6_NullContextHandleIffCreated ==
    last.op = "chat" /\ last.ctx_in = NoneCtx =>
      /\ HasHandle(last.ctx_out) <=> (last.built /\ last.create = "ok")
      /\ ~HasHandle(last.ctx_out) => last.ctx_out = NoneCtx
      /\ HasHandle(last.ctx_out) => last.ctx_out.session_id = sessions

C6_Witness ==
    /\ last.op = "chat" /\ last.ctx_in = NoneCtx
    /\ last.built /\ last.create \in RaiseKinds
    /\ last.ctx_out = NoneCtx

\* the text has the appended "Sentiment Analysis: <Label>" line
HasLabel(text) == \E i \in 1..Len(text) : text[i] = LabelPrefix

CapitalizedLabels == { capitalize(l) : l \in SentimentLabels }

\* the text reports a connection problem or an error
ReportsError(text) ==
    \E i \in 1..Len(text) : text[i] \in {TroubleText, error_reply("")[1]}

\* C7: the reply of send_chat_message has the appended sentiment label if
\* and only if the lower-cased message contains "analyze", "sentiment" or
\* "review", for every outcome of the assistant and of the sentiment service.
C7_LabelIffKeyword ==
    last.op = "send" => (HasLabel(last.text) <=> TriggerOf[last.message])

\* C8: for a trigger message, whatever the sentiment service returns, the
\* reply of send_chat_message is the base reply of the assistant, a blank
\* line and the sentiment label; when sentiment analysis degrades, the label
\* is the fallback's.
C8_BaseReplyKept ==
    last.op = "send" /\ last.trig =>
      /\ \E l \in CapitalizedLabels :
            last.text = last.base \o <<BlankLine, LabelPrefix, l>>
      /\ last.nlu \notin NluPayloads =>
            last.text = last.base \o <<BlankLine, LabelPrefix, capitalize("neutral")>>

C11_UnconfiguredDocumentIsFallback ==
    last.op = "document" /\ ~last.key => last.doc = DocSynthetic

\* C11 amended: in an unconfigured environment analyze_financial_document
\* returns the fixed fallback triple (three fixed insights, POSITIVE 0.89,
\* fixed summary) exactly when the local analyzer is unavailable; when it is
\* available the result carries the analyzer's own sentiment of the first
\* 512 characters with the local branch's insights and summary; when it
\* fails while classifying the result is the except branch's NEUTRAL 0.75
\* triple.  Each is a well-formed triple and nothing is raised.
C11_UnconfiguredDocumentByAnalyzer ==
    last.op = "document" /\ ~last.key =>
      /\ ~last.built <=> last.path = "none"
      /\ last.path = "none" => last.doc = DocSynthetic
      /\ last.path = "local" =>
            /\ \E v \in LocalVerdicts : last.doc = DocLocal(local_sentiment(v))
            /\ last.classified <= PrefixLen
      /\ last.path = "except" => last.doc = DocExcept /\ last.failed
      /\ last.path \in {"none", "local", "except"}
      /\ last.path # "none" => last.doc # DocSynthetic
      /\ DocShape(last.doc) /\ ~last.raised

C11_Witness ==
    /\ last.op = "document" /\ ~last.key /\ ~last.built
    /\ last.path = "none" /\ last.doc = DocSynthetic

\* C12: every text returned by chat (chat_with_watson, send_chat_message) and
\* by generate (call_granite_model) is non-empty, for every backend response,
\* a 2xx response with an empty or missing text field included.
C12_ReturnedTextNonEmpty ==
    last.op \in {"chat", "send", "granite"} => last.text # << >>

\* one chat_with_watson call of a built client, and the call after it
SessionRecoveryStep ==
    /\ last'.op = "chat" /\ last'.built /\ ~HasHandle(last'.ctx_in) =>
         /\ last'.creates = 1
         /\ last'.create \in RaiseKinds =>
              /\ ~HasHandle(last'.ctx_out)
              /\ last'.ctx_out = last'.ctx_in
              /\ last'.messages = 0
              /\ sessions' = sessions
         /\ last'.create = "ok" /\ last'.msg \in RaiseKinds =>
              /\ HasHandle(last'.ctx_out)
              /\ last'.ctx_out = SessionCtx(sessions + 1)
              /\ sessions' = sessions + 1
    /\ last'.op = "chat" => ctx' = last'.ctx_out /\ last'.ctx_in = ctx
    /\ last.op = "chat" /\ last'.op = "chat" /\ last'.built =>
         /\ last'.ctx_in = last.ctx_out
         /\ last'.creates = (IF HasHandle(last.ctx_out) THEN 0 ELSE 1)
         /\ HasHandle(last.ctx_out) => last'.ctx_out = last.ctx_out

\* C17: when create_session fails on a call made with a context lacking a
\* session handle, the returned context still lacks a handle and the next
\* call attempts create_session again; when create_session succeeds and the
\* message call then fails, the returned context carries the new handle and
\* the next call creates no other session.
C17_SessionRecovery == [][SessionRecoveryStep]_vars

\* a second call that had to create a session again, its own creation failing
C17_Witness ==
    /\ last.op = "chat" /\ last.built /\ turns = 2
    /\ ~HasHandle(last.ctx_in) /\ last.creates = 1
    /\ last.create \in RaiseKinds /\ ~HasHandle(last.ctx_out)

\* the score of the formula, over the denominator `income`:
\* savings/income*100*0.6 + min(n/10, 1.0)*40 = (60*savings + min(4n, 40)*income) / income
formula_numerator(income, n, savings) ==
    60 * savings + (IF 4 * n < 40 THEN 4 * n ELSE 40) * income

formula_score(income, n, savings) ==
    LET raw == formula_numerator(income, n, savings) IN
    IF income = 0 THEN <<0, 1>>
    ELSE IF raw < 0 THEN <<0, 1>>
    ELSE IF raw > 100 * income THEN <<100, 1>>
    ELSE reduce(<<raw, income>>)

\* C15: for non-negative income and savings and every expense mapping,
\* calculate_financial_health_score returns 0 when income = 0 and otherwise
\* clamp(savings/income*100*0.6 + min(distinctCategoryCount/10, 1.0)*40, 0, 100);
\* the result lies in [0, 100].
C15_ScoreFormula ==
    last.op = "score" /\ last.income >= 0 /\ last.savings >= 0 =>
      /\ last.income = 0 => last.score = <<0, 1>>
      /\ last.score = formula_score(last.income,
                                    Cardinality(DOMAIN last.expenses),
                                    last.savings)
      /\ 0 <= last.score[1] /\ last.score[1] <= 100 * last.score[2]
      /\ last.score[2] > 0

\* savings above the income, which the clamp brings down to 100
C15_Witness ==
    /\ last.op = "score" /\ last.income = 800 /\ last.savings = 6000
    /\ Cardinality(DOMAIN last.expenses) > 10
    /\ last.score = <<100, 1>>

SampleInputs ==
    /\ last.op = "score" /\ last.income = 5000 /\ last.savings = 1000
    /\ last.expenses = [c \in {"Housing", "Food"} |->
                           IF c = "Housing" THEN 1500 ELSE 600]

\* C16 as stated: score(income=5000, expenses={Housing:1500, Food:600},
\* savings=1000) is approximately 52.0 (within 0.5 of it).
C16_SampleScoreIs52 ==
    SampleInputs =>
      /\ leq(<<103, 2>>, last.score)
      /\ leq(last.score, <<105, 2>>)

\* C16 amended: score(income=5000, expenses={Housing:1500, Food:600},
\* savings=1000) is 20.0: savings rate 20 gives 12, diversity 2/10 gives 8.
C16_SampleScoreIs20 ==
    SampleInputs => last.score = <<20, 1>>

C16_Witness ==
    SampleInputs /\ last.score[1] = 20 * last.score[2]

\* the history holds, turn by turn, the prompt and then the streamed reply
\* computed for it
HistoryInOrder ==
    /\ Len(ui.chat_history) = 2 * Len(ui.log)
    /\ \A i \in 1..Len(ui.log) :
         /\ ui.chat_history[2 * i - 1] = Entry("user", ui.log[i].prompt)
         /\ ui.chat_history[2 * i] =
               Entry("assistant", full_response(ui.log[i].reply))
    /\ last.op = "input" =>
         /\ Len(ui.log) >= 1
         /\ ui.log[Len(ui.log)] = [prompt |-> last.message, reply |-> last.text]

\* a step keeps the history, adds one turn's two entries at its end, or is
\* the logout that clears it
HistoryStep ==
    \/ ui'.chat_history = ui.chat_history
    \/ /\ last'.op = "input"
       /\ Len(ui'.chat_history) = Len(ui.chat_history) + 2
       /\ SubSeq(ui'.chat_history, 1, Len(ui.chat_history)) = ui.chat_history
    \/ /\ last'.op = "logout"
       /\ ui'.chat_history = << >>

\* C13: within one conversation whose turns are submitted one after the
\* other, the chat history alternates user and assistant entries, the i-th
\* assistant entry is the reply computed for the i-th user message (as it
\* was streamed), and no entry is reordered or dropped until logout clears
\* the history.
C13_RepliesInSubmissionOrder == []HistoryInOrder /\ [][HistoryStep]_vars

\* two turns in the history, the second reply carrying a sentiment label
C13_Witness ==
    /\ Len(ui.chat_history) = 4
    /\ ui.chat_history[1].role = "user"
    /\ ui.chat_history[2].role = "assistant"
    /\ ui.chat_history[3].content # ui.chat_history[1].content
    /\ ui.chat_history[4].content # ui.chat_history[2].content
    /\ last.op = "input" /\ last.labelled

\* C14: every real backend call is a single attempt with a bounded timeout:
\* an invocation posts at most once, and an invocation that waits for the
\* backend eventually returns, even when the backend never answers.
C14_SingleBoundedAttempt ==
    /\ [](call.posts <= 1)
    /\ (call.phase = "waiting") ~> (call.phase = "idle")

====
